---- MODULE Spec2Model ----
(***************************************************************************)
(* State-machine model of the "unwritten" studio (src/App.tsx): the App    *)
(* component (video generation outcome, Kaspar Hauser chat) and the        *)
(* PromptForm component (mode-tagged generation request).                  *)
(*                                                                         *)
(* One action is one React event handler or one continuation of an async   *)
(* handler, together with the effects React runs for the state it sets.    *)
(* Strings that the code inspects (trim, split) are sequences of           *)
(* characters; strings it only stores or compares are TLA+ strings.        *)
(***************************************************************************)
EXTENDS Integers, Sequences, FiniteSets

\* ------------------------------------------------------------------ bounds
MaxPromptLen == 1      \* longest prompt the user types
MaxPendingReads == 2   \* file reads in flight at once
MaxGenerations == 3    \* generate calls per session
MaxSends == 2          \* chat sends per session
MaxPayloadLen == 3     \* longest base64 text of a file read on its own

\* --------------------------------------------------------------- constants
\* a nullable value is a sequence of length 0 (null) or 1
None == <<>>
Some(x) == <<x>>

\* types.ts enums, as App.tsx uses them
AppStates == {"IDLE", "LOADING", "SUCCESS", "ERROR"}
TEXT_TO_VIDEO == "TEXT_TO_VIDEO"
ANIMATE_IMAGE == "ANIMATE_IMAGE"
REFERENCES_TO_VIDEO == "REFERENCES_TO_VIDEO"
EXTEND_VIDEO == "EXTEND_VIDEO"
GenerationMode == {TEXT_TO_VIDEO, ANIMATE_IMAGE, REFERENCES_TO_VIDEO, EXTEND_VIDEO}
VeoModel == {"VEO_FAST", "VEO"}
AspectRatio == {"LANDSCAPE", "PORTRAIT"}
Resolution == {"P720", "P1080"}

\* ------------------------------------------------------------------ strings
Whitespace == {" "}
PromptChars == {" ", "a"}

RECURSIVE trimStart(_)
trimStart(s) ==
  IF s = <<>> THEN s
  ELSE IF Head(s) \in Whitespace THEN trimStart(Tail(s)) ELSE s

RECURSIVE trimEnd(_)
trimEnd(s) ==
  IF s = <<>> THEN s
  ELSE IF s[Len(s)] \in Whitespace THEN trimEnd(SubSeq(s, 1, Len(s) - 1)) ELSE s

\* String.prototype.trim
trim(s) == trimEnd(trimStart(s))

\* what the user can type into the prompt textarea
Prompts == UNION {[1..n -> PromptChars] : n \in 0..MaxPromptLen}

\* ANIMATION_PRESETS: each preset's prompt is a fixed non-blank text, kept as
\* a one-symbol string named by the preset's id
ANIMATION_PRESETS == {"page_turn", "gentle_sway", "dynamic_zoom", "particle_flow"}
PresetPrompt(id) == <<id>>

\* -------------------------------------------------------------- file reads
\* The files the user picks, and what FileReader.readAsDataURL delivers for
\* each: a load event with the data URL, or an error event.
Files == {"a.png", "empty.png"}
readAsDataURL(file) ==
  CASE file = "a.png" -> [event |-> "load", result |-> <<"d", "a", "t", "a", ",", "Q">>]
    [] file = "empty.png" -> [event |-> "load", result |-> <<"d", "a", "t", "a", ":">>]
    [] OTHER -> [event |-> "error", result |-> <<>>]

\* position of the first sep in s at or after i, or Len(s) + 1
RECURSIVE IndexOf(_, _, _)
IndexOf(s, sep, i) ==
  IF i > Len(s) THEN Len(s) + 1
  ELSE IF s[i] = sep THEN i ELSE IndexOf(s, sep, i + 1)

\* String.prototype.split(sep): the pieces of s between the separators
RECURSIVE split(_, _)
split(s, sep) ==
  LET k == IndexOf(s, sep, 1) IN
    IF k > Len(s) THEN <<s>>
    ELSE <<SubSeq(s, 1, k - 1)>> \o split(SubSeq(s, k + 1, Len(s)), sep)

\* reader.onload resolving with whatever follows the comma, empty or not
readerSettles_ResolvesEmpty(ev, file) ==
  IF ev.event = "load"
  THEN LET parts == split(ev.result, ",")
           base64 == IF Len(parts) >= 2 THEN parts[2] ELSE <<>>
       IN [status |-> "resolved", value |-> Some([file |-> file, base64 |-> base64])]
  ELSE IF ev.event = "error"
  THEN [status |-> "rejected", value |-> None]
  ELSE [status |-> "pending", value |-> None]

\* The promise of fileToBase64 after the reader fired its terminal event ev
\* for file: reader.onload resolves or rejects, reader.onerror rejects, and
\* no handler is installed for any other event, which leaves the promise
\* as it was.
readerSettles(ev, file) ==
  IF ev.event = "load"
  THEN LET parts == split(ev.result, ",")
           base64 == IF Len(parts) >= 2 THEN parts[2] ELSE <<>>
       IN IF base64 # <<>>
          THEN [status |-> "resolved", value |-> Some([file |-> file, base64 |-> base64])]
          ELSE [status |-> "rejected", value |-> None]
  ELSE IF ev.event = "error"
  THEN [status |-> "rejected", value |-> None]
  ELSE [status |-> "pending", value |-> None]

\* fileToBase64: the promise's settlement for one file
fileToBase64(file) == readerSettles(readAsDataURL(file), file)

fileToImageFile(file) == fileToBase64(file)

\* Files by content, for fileToBase64 on its own: a media type and the
\* base64 text of the bytes.
Base64Chars == {"Q", "/", "="}
MediaTypes == {<<>>, <<"image/png">>}
RECURSIVE SeqsUpTo(_, _)
SeqsUpTo(S, n) ==
  IF n = 0 THEN {<<>>}
  ELSE LET shorter == SeqsUpTo(S, n - 1) IN
         shorter \cup {Append(q, c) : q \in shorter, c \in S}
IngestFiles ==
  {[type |-> t, payload |-> b] : t \in MediaTypes, b \in SeqsUpTo(Base64Chars, MaxPayloadLen)}

\* the data URL readAsDataURL makes of a file
DataURL(file) == <<"data:">> \o file.type \o <<";base64", ",">> \o file.payload

\* The terminal events the FileReader of fileToBase64 can fire for one
\* readAsDataURL(file): load with the data URL (for a file of no bytes some
\* engines deliver the bare "data:"; for a file whose data URL is longer
\* than the engine's strings can be, load with the empty string), or error.
\* The size of a file is not modelled, so every file with bytes may be one
\* over that limit. An abort event is fired only by FileReader.abort(), and
\* the reader is local to the promise and never aborted.
ReaderEvents(file) ==
  {[event |-> "load", result |-> DataURL(file)]}
    \cup (IF file.payload = <<>>
          THEN {[event |-> "load", result |-> <<"data:">>]}
          ELSE {[event |-> "load", result |-> <<>>]})
    \cup {[event |-> "error", result |-> <<>>]}

\* the ImageUpload slots of renderMediaUploads, by the setter behind onSelect
ReadTargets == {"startFrame", "endFrame", "referenceImages"}

\* ------------------------------------------------------------------- state
VARIABLES
  \* App
  activeTab, appState, videoUrl, errorMessage, lastConfig, initialFormValues,
  chatMessages, chatInput, isTyping,
  \* PromptForm
  prompt, model, aspectRatio, resolution, generationMode, startFrame, endFrame,
  referenceImages, styleImage, inputVideo, inputVideoObject, isLooping,
  isSettingsOpen, isModeSelectorOpen,
  \* environment: suspended continuations and browser resources
  pendingReads,    \* [target, file] -> number of handleFileChange calls awaiting fileToImageFile
  genInFlight,     \* handleGenerate calls awaiting generateVideo: {[id, params]}
  genCount,        \* handleGenerate calls made so far
  liveUrls,        \* object URLs created and not revoked
  chatInFlight,    \* handleSendMessage calls awaiting generateContent: {[id, contents]}
  sendCount,       \* handleSendMessage calls that got past the guard
  \* one fileToBase64 call taken on its own
  ingestFile,      \* the file of the call, None before any call
  ingestEvent,     \* the terminal event its reader fired, None while reading
  ingestPromise    \* the promise the call returned: [status, value]

appVars == <<appState, videoUrl, errorMessage, lastConfig, initialFormValues>>
chatVars == <<chatMessages, chatInput, isTyping, chatInFlight, sendCount>>
requestVars == <<prompt, model, aspectRatio, resolution, generationMode, startFrame,
                 endFrame, referenceImages, styleImage, inputVideo, inputVideoObject,
                 isLooping>>
formVars == <<requestVars, isSettingsOpen, isModeSelectorOpen, pendingReads>>
genVars == <<genInFlight, genCount, liveUrls>>
ingestVars == <<ingestFile, ingestEvent, ingestPromise>>
vars == <<activeTab, appVars, chatVars, formVars, genVars, ingestVars>>

\* ---------------------------------------------------------------- App views
\* App render: the studio tab shows PromptForm only while appState is IDLE
PromptFormRendered == activeTab = "studio" /\ appState = "IDLE"

\* VideoResult shown whenever a video URL is held, whatever appState is
VideoResultRendered_AnyState == activeTab = "studio" /\ videoUrl # None

\* App render: the studio tab shows VideoResult on SUCCESS with a video URL
VideoResultRendered == activeTab = "studio" /\ appState = "SUCCESS" /\ videoUrl # None

\* App render: the chat input and send button exist on the dialog tab only
ChatRendered == activeTab = "dialog"

\* -------------------------------------------------------------- PromptForm
\* useState initial values of PromptForm for the initialValues prop iv
FormInitial(iv) ==
  IF iv = None
  THEN [prompt |-> <<>>, model |-> "VEO_FAST", aspectRatio |-> "LANDSCAPE",
        resolution |-> "P720", mode |-> TEXT_TO_VIDEO, startFrame |-> None,
        endFrame |-> None, referenceImages |-> <<>>, styleImage |-> None,
        inputVideo |-> None, inputVideoObject |-> None, isLooping |-> FALSE]
  ELSE iv[1]

NoReads == [k \in ReadTargets \X Files |-> 0]

RECURSIVE SumOver(_, _)
SumOver(f, S) ==
  IF S = {} THEN 0
  ELSE LET k == CHOOSE x \in S : TRUE IN f[k] + SumOver(f, S \ {k})

PendingTotal == SumOver(pendingReads, DOMAIN pendingReads)

\* the effect forcing only the engine for REFERENCES_TO_VIDEO
generationModeEffect_ModelOnly(mode, cur) ==
  IF mode = REFERENCES_TO_VIDEO
  THEN [model |-> "VEO", aspectRatio |-> cur.aspectRatio, resolution |-> cur.resolution]
  ELSE IF mode = EXTEND_VIDEO
  THEN [model |-> cur.model, aspectRatio |-> cur.aspectRatio, resolution |-> "P720"]
  ELSE [model |-> cur.model, aspectRatio |-> cur.aspectRatio,
        resolution |-> cur.resolution]

\* useEffect([generationMode]): the settings after the effect ran for mode,
\* from the settings cur before it
generationModeEffect(mode, cur) ==
  IF mode = REFERENCES_TO_VIDEO
  THEN [model |-> "VEO", aspectRatio |-> "LANDSCAPE", resolution |-> "P720"]
  ELSE IF mode = EXTEND_VIDEO
  THEN [model |-> cur.model, aspectRatio |-> cur.aspectRatio, resolution |-> "P720"]
  ELSE [model |-> cur.model, aspectRatio |-> cur.aspectRatio,
        resolution |-> cur.resolution]

\* The state a PromptForm has when it is (re)mounted with prop iv. While the
\* form is not rendered its variables hold this state: React discards the
\* state of an unmounted component, and a continuation of an unmounted
\* component's handler sets nothing, so its pending reads are dropped. The
\* generationMode effect runs on mount for the initial mode.
MountPromptForm(iv) ==
  LET f == FormInitial(iv)
      settings == generationModeEffect(f.mode, f)
  IN
    /\ prompt' = f.prompt
    /\ model' = settings.model
    /\ aspectRatio' = settings.aspectRatio
    /\ resolution' = settings.resolution
    /\ generationMode' = f.mode
    /\ startFrame' = f.startFrame
    /\ endFrame' = f.endFrame
    /\ referenceImages' = f.referenceImages
    /\ styleImage' = f.styleImage
    /\ inputVideo' = f.inputVideo
    /\ inputVideoObject' = f.inputVideoObject
    /\ isLooping' = f.isLooping
    /\ isSettingsOpen' = FALSE
    /\ isModeSelectorOpen' = FALSE
    /\ pendingReads' = NoReads

\* the argument handleSubmit passes to onGenerate
SubmitParams ==
  [prompt |-> prompt, model |-> model, aspectRatio |-> aspectRatio,
   resolution |-> resolution, mode |-> generationMode, startFrame |-> startFrame,
   endFrame |-> endFrame, referenceImages |-> referenceImages,
   styleImage |-> styleImage, inputVideo |-> inputVideo,
   inputVideoObject |-> inputVideoObject, isLooping |-> isLooping]

\* a mode selector offering every GenerationMode
selectableModes_WithExtend == GenerationMode

\* the modes the selector lists
selectableModes == {TEXT_TO_VIDEO, ANIMATE_IMAGE, REFERENCES_TO_VIDEO}

isRefMode == generationMode = REFERENCES_TO_VIDEO
isExtendMode == generationMode = EXTEND_VIDEO
isAnimateMode == generationMode = ANIMATE_IMAGE

\* the switch with the text mode testing the prompt as typed, untrimmed
isSubmitDisabled_NoTrim ==
  CASE generationMode = TEXT_TO_VIDEO -> prompt = <<>>
    [] generationMode = ANIMATE_IMAGE -> startFrame = None
    [] generationMode = REFERENCES_TO_VIDEO ->
         Len(referenceImages) = 0 \/ trim(prompt) = <<>>
    [] generationMode = EXTEND_VIDEO -> inputVideoObject = None

\* the switch on generationMode that sets isSubmitDisabled
isSubmitDisabled ==
  CASE generationMode = TEXT_TO_VIDEO -> trim(prompt) = <<>>
    [] generationMode = ANIMATE_IMAGE -> startFrame = None
    [] generationMode = REFERENCES_TO_VIDEO ->
         Len(referenceImages) = 0 \/ trim(prompt) = <<>>
    [] generationMode = EXTEND_VIDEO -> inputVideoObject = None

\* the same switch's tooltipText
tooltipText ==
  CASE generationMode = TEXT_TO_VIDEO ->
         IF trim(prompt) = <<>> THEN "Please enter a description." ELSE ""
    [] generationMode = ANIMATE_IMAGE ->
         IF startFrame = None THEN "Upload a starting image." ELSE ""
    [] generationMode = REFERENCES_TO_VIDEO ->
         LET hasNoRefs == Len(referenceImages) = 0
             hasNoPrompt == trim(prompt) = <<>>
         IN IF hasNoRefs /\ hasNoPrompt THEN "Add references and a description."
            ELSE IF hasNoRefs THEN "Add at least one reference image."
            ELSE IF hasNoPrompt THEN "Please enter a description."
            ELSE ""
    [] generationMode = EXTEND_VIDEO ->
         IF inputVideoObject = None THEN "Extension requires a base video." ELSE ""

\* textarea onChange
SetPrompt(text) ==
  /\ PromptFormRendered
  /\ prompt' = text
  /\ UNCHANGED <<model, aspectRatio, resolution, generationMode, startFrame, endFrame,
                 referenceImages, styleImage, inputVideo, inputVideoObject, isLooping,
                 isSettingsOpen, isModeSelectorOpen, pendingReads>>
  /\ UNCHANGED <<activeTab, appVars, chatVars, genVars, ingestVars>>

\* a preset chip: shown in animate mode once a start frame is present
applyPreset(preset) ==
  /\ PromptFormRendered
  /\ isAnimateMode /\ startFrame # None
  /\ prompt' = PresetPrompt(preset)
  /\ UNCHANGED <<model, aspectRatio, resolution, generationMode, startFrame, endFrame,
                 referenceImages, styleImage, inputVideo, inputVideoObject, isLooping,
                 isSettingsOpen, isModeSelectorOpen, pendingReads>>
  /\ UNCHANGED <<activeTab, appVars, chatVars, genVars, ingestVars>>

\* the mode button toggles the selector; a mousedown outside closes it
ToggleModeSelector ==
  /\ PromptFormRendered
  /\ isModeSelectorOpen' = ~isModeSelectorOpen
  /\ UNCHANGED <<requestVars, isSettingsOpen, pendingReads>>
  /\ UNCHANGED <<activeTab, appVars, chatVars, genVars, ingestVars>>

\* the settings button
ToggleSettings ==
  /\ PromptFormRendered
  /\ isSettingsOpen' = ~isSettingsOpen
  /\ UNCHANGED <<requestVars, isModeSelectorOpen, pendingReads>>
  /\ UNCHANGED <<activeTab, appVars, chatVars, genVars, ingestVars>>

\* handleSelectMode without its setIsLooping(false)
handleSelectMode_KeepsLoop(mode) ==
  /\ PromptFormRendered
  /\ isModeSelectorOpen
  /\ generationMode' = mode
  /\ isModeSelectorOpen' = FALSE
  /\ startFrame' = None
  /\ endFrame' = None
  /\ referenceImages' = <<>>
  /\ styleImage' = None
  /\ inputVideo' = None
  /\ inputVideoObject' = None
  /\ IF mode # generationMode
     THEN LET settings == generationModeEffect(mode, [model |-> model, aspectRatio |-> aspectRatio,
                                                      resolution |-> resolution]) IN
            /\ model' = settings.model
            /\ aspectRatio' = settings.aspectRatio
            /\ resolution' = settings.resolution
     ELSE UNCHANGED <<model, aspectRatio, resolution>>
  /\ UNCHANGED <<prompt, isLooping, isSettingsOpen, pendingReads>>
  /\ UNCHANGED <<activeTab, appVars, chatVars, genVars, ingestVars>>

\* a mode option of the open selector, with the generationMode effect that
\* React runs when the mode changed
handleSelectMode(mode) ==
  /\ PromptFormRendered
  /\ isModeSelectorOpen
  /\ generationMode' = mode
  /\ isModeSelectorOpen' = FALSE
  /\ startFrame' = None
  /\ endFrame' = None
  /\ referenceImages' = <<>>
  /\ styleImage' = None
  /\ inputVideo' = None
  /\ inputVideoObject' = None
  /\ isLooping' = FALSE
  /\ IF mode # generationMode
     THEN LET settings == generationModeEffect(mode, [model |-> model, aspectRatio |-> aspectRatio,
                                                      resolution |-> resolution]) IN
            /\ model' = settings.model
            /\ aspectRatio' = settings.aspectRatio
            /\ resolution' = settings.resolution
     ELSE UNCHANGED <<model, aspectRatio, resolution>>
  /\ UNCHANGED <<prompt, isSettingsOpen, pendingReads>>
  /\ UNCHANGED <<activeTab, appVars, chatVars, genVars, ingestVars>>

\* the Engine select of the open settings panel
SetModel(value) ==
  /\ PromptFormRendered
  /\ isSettingsOpen /\ ~isRefMode
  /\ model' = value
  /\ UNCHANGED <<prompt, aspectRatio, resolution, generationMode, startFrame, endFrame,
                 referenceImages, styleImage, inputVideo, inputVideoObject, isLooping,
                 isSettingsOpen, isModeSelectorOpen, pendingReads>>
  /\ UNCHANGED <<activeTab, appVars, chatVars, genVars, ingestVars>>

\* the Format select
SetAspectRatio(value) ==
  /\ PromptFormRendered
  /\ isSettingsOpen /\ ~(isRefMode \/ isExtendMode)
  /\ aspectRatio' = value
  /\ UNCHANGED <<prompt, model, resolution, generationMode, startFrame, endFrame,
                 referenceImages, styleImage, inputVideo, inputVideoObject, isLooping,
                 isSettingsOpen, isModeSelectorOpen, pendingReads>>
  /\ UNCHANGED <<activeTab, appVars, chatVars, genVars, ingestVars>>

\* the Quality select
SetResolution(value) ==
  /\ PromptFormRendered
  /\ isSettingsOpen /\ ~(isRefMode \/ isExtendMode)
  /\ resolution' = value
  /\ UNCHANGED <<prompt, model, aspectRatio, generationMode, startFrame, endFrame,
                 referenceImages, styleImage, inputVideo, inputVideoObject, isLooping,
                 isSettingsOpen, isModeSelectorOpen, pendingReads>>
  /\ UNCHANGED <<activeTab, appVars, chatVars, genVars, ingestVars>>

\* referenceImages.length < 3: the bound under which the add slot is rendered
MaxReferenceImages == 3

\* renderMediaUploads: the empty ImageUpload slot (with its file input) that
\* target names is on screen
UploadSlotRendered(target) ==
  CASE target = "startFrame" -> isAnimateMode /\ startFrame = None
    [] target = "endFrame" -> isAnimateMode /\ ~isLooping /\ endFrame = None
    [] target = "referenceImages" ->
         isRefMode /\ Len(referenceImages) < MaxReferenceImages

\* ImageUpload.handleFileChange up to its await: the read of the chosen file
\* is started and the handler is suspended
StartRead(target, file) ==
  /\ PromptFormRendered
  /\ UploadSlotRendered(target)
  /\ PendingTotal < MaxPendingReads
  /\ pendingReads' = [pendingReads EXCEPT ![<<target, file>>] = @ + 1]
  /\ UNCHANGED <<requestVars, isSettingsOpen, isModeSelectorOpen>>
  /\ UNCHANGED <<activeTab, appVars, chatVars, genVars, ingestVars>>

\* the onSelect prop of the slot: setStartFrame, setEndFrame, or the
\* functional update that appends to referenceImages
onSelect(target, image) ==
  CASE target = "startFrame" ->
         /\ startFrame' = Some(image)
         /\ UNCHANGED <<endFrame, referenceImages>>
    [] target = "endFrame" ->
         /\ endFrame' = Some(image)
         /\ UNCHANGED <<startFrame, referenceImages>>
    [] target = "referenceImages" ->
         /\ referenceImages' = Append(referenceImages, image)
         /\ UNCHANGED <<startFrame, endFrame>>

\* ImageUpload.handleFileChange after its await: onSelect with the image when
\* fileToImageFile resolved, the catch branch (a log line) when it rejected
CompleteRead(target, file) ==
  /\ pendingReads[<<target, file>>] > 0
  /\ fileToImageFile(file).status # "pending"
  /\ pendingReads' = [pendingReads EXCEPT ![<<target, file>>] = @ - 1]
  /\ LET settled == fileToImageFile(file) IN
       IF settled.status = "resolved"
       THEN onSelect(target, settled.value[1])
       ELSE UNCHANGED <<startFrame, endFrame, referenceImages>>
  /\ UNCHANGED <<prompt, model, aspectRatio, resolution, generationMode, styleImage,
                 inputVideo, inputVideoObject, isLooping, isSettingsOpen,
                 isModeSelectorOpen>>
  /\ UNCHANGED <<activeTab, appVars, chatVars, genVars, ingestVars>>

\* onRemove of the Source Image slot
RemoveStartFrame ==
  /\ PromptFormRendered
  /\ isAnimateMode /\ startFrame # None
  /\ startFrame' = None
  /\ isLooping' = FALSE
  /\ UNCHANGED <<prompt, model, aspectRatio, resolution, generationMode, endFrame,
                 referenceImages, styleImage, inputVideo, inputVideoObject,
                 isSettingsOpen, isModeSelectorOpen, pendingReads>>
  /\ UNCHANGED <<activeTab, appVars, chatVars, genVars, ingestVars>>

\* onRemove of the End Frame slot, rendered while not looping
RemoveEndFrame ==
  /\ PromptFormRendered
  /\ isAnimateMode /\ ~isLooping /\ endFrame # None
  /\ endFrame' = None
  /\ UNCHANGED <<prompt, model, aspectRatio, resolution, generationMode, startFrame,
                 referenceImages, styleImage, inputVideo, inputVideoObject, isLooping,
                 isSettingsOpen, isModeSelectorOpen, pendingReads>>
  /\ UNCHANGED <<activeTab, appVars, chatVars, genVars, ingestVars>>

\* onChange of the loop checkbox, rendered once a start frame is present
ToggleLoop ==
  /\ PromptFormRendered
  /\ isAnimateMode /\ startFrame # None
  /\ LET checked == ~isLooping IN
       /\ isLooping' = checked
       /\ endFrame' = IF checked THEN None ELSE endFrame
  /\ UNCHANGED <<prompt, model, aspectRatio, resolution, generationMode, startFrame,
                 referenceImages, styleImage, inputVideo, inputVideoObject,
                 isSettingsOpen, isModeSelectorOpen, pendingReads>>
  /\ UNCHANGED <<activeTab, appVars, chatVars, genVars, ingestVars>>

\* imgs.filter((_, i) => i !== index), with positions counted from 1
RemoveAt(imgs, index) ==
  SubSeq(imgs, 1, index - 1) \o SubSeq(imgs, index + 1, Len(imgs))

\* onRemove of the reference image at index
RemoveReferenceImage(index) ==
  /\ PromptFormRendered
  /\ isRefMode /\ index \in 1..Len(referenceImages)
  /\ referenceImages' = RemoveAt(referenceImages, index)
  /\ UNCHANGED <<prompt, model, aspectRatio, resolution, generationMode, startFrame,
                 endFrame, styleImage, inputVideo, inputVideoObject, isLooping,
                 isSettingsOpen, isModeSelectorOpen, pendingReads>>
  /\ UNCHANGED <<activeTab, appVars, chatVars, genVars, ingestVars>>

\* ---------------------------------------------------------- App: generation
\* handleGenerate without its setLastConfig(params)
handleGenerate_KeepsLastConfig(params) ==
  /\ appState' = "LOADING"
  /\ errorMessage' = None
  /\ initialFormValues' = None
  /\ genCount' = genCount + 1
  /\ genInFlight' = genInFlight \cup {[id |-> genCount + 1, params |-> params]}
  /\ UNCHANGED <<videoUrl, lastConfig, liveUrls>>

\* handleGenerate calling generateVideo without setAppState(LOADING)
handleGenerate_NoLoading(params) ==
  /\ errorMessage' = None
  /\ lastConfig' = Some(params)
  /\ initialFormValues' = None
  /\ genCount' = genCount + 1
  /\ genInFlight' = genInFlight \cup {[id |-> genCount + 1, params |-> params]}
  /\ UNCHANGED <<appState, videoUrl, liveUrls>>

\* handleGenerate up to its await: the four state updates, and the call of
\* generateVideo(params) that suspends the handler
handleGenerate(params) ==
  /\ appState' = "LOADING"
  /\ errorMessage' = None
  /\ lastConfig' = Some(params)
  /\ initialFormValues' = None
  /\ genCount' = genCount + 1
  /\ genInFlight' = genInFlight \cup {[id |-> genCount + 1, params |-> params]}
  /\ UNCHANGED <<videoUrl, liveUrls>>

\* the submit button (disabled while isSubmitDisabled): handleSubmit calls
\* onGenerate; appState leaves IDLE, so App unmounts the form
SubmitForm ==
  /\ PromptFormRendered
  /\ ~isSubmitDisabled
  /\ genCount < MaxGenerations
  /\ handleGenerate(SubmitParams)
  /\ MountPromptForm(initialFormValues')
  /\ UNCHANGED <<activeTab, chatVars, ingestVars>>

\* generateVideo (services/geminiService): the object URL it derives for the
\* fetched media of a call; one per successful call
createObjectURL(call) == call.id

\* the object URLs handleGenerate revokes when it installs a new video URL:
\* it calls setVideoUrl and nothing else
revokedOnInstall(previousUrl) == {}

\* handleGenerate after its await, generateVideo resolved
GenerateVideoResolves(call) ==
  /\ call \in genInFlight
  /\ genInFlight' = genInFlight \ {call}
  /\ LET objectUrl == createObjectURL(call) IN
       /\ liveUrls' = (liveUrls \ revokedOnInstall(videoUrl)) \cup {objectUrl}
       /\ videoUrl' = Some(objectUrl)
  /\ appState' = "SUCCESS"
  /\ UNCHANGED <<errorMessage, lastConfig, initialFormValues, genCount>>
  /\ UNCHANGED <<activeTab, chatVars, formVars, ingestVars>>

\* what generateVideo can reject with: an Error with a message, an Error
\* without one, a value that is no Error
GenerationErrors ==
  { [isError |-> TRUE, message |-> "quota exceeded"],
    [isError |-> TRUE, message |-> ""],
    [isError |-> FALSE, message |-> "offline"] }

\* the catch branch's argument of setErrorMessage
FailureReason(error) ==
  IF error.isError THEN error.message ELSE "Fehler bei der Generierung."

\* the catch branch recording the reason without setAppState(ERROR)
GenerateVideoRejects_StaysLoading(call, error) ==
  /\ call \in genInFlight
  /\ genInFlight' = genInFlight \ {call}
  /\ errorMessage' = Some(FailureReason(error))
  /\ UNCHANGED <<appState, videoUrl, lastConfig, initialFormValues, genCount, liveUrls>>
  /\ UNCHANGED <<activeTab, chatVars, formVars, ingestVars>>

\* handleGenerate after its await, generateVideo rejected
GenerateVideoRejects(call, error) ==
  /\ call \in genInFlight
  /\ genInFlight' = genInFlight \ {call}
  /\ errorMessage' = Some(FailureReason(error))
  /\ appState' = "ERROR"
  /\ UNCHANGED <<videoUrl, lastConfig, initialFormValues, genCount, liveUrls>>
  /\ UNCHANGED <<activeTab, chatVars, formVars, ingestVars>>

\* VideoResult onRetry
Retry ==
  /\ VideoResultRendered
  /\ genCount < MaxGenerations
  /\ handleGenerate(lastConfig[1])
  /\ UNCHANGED <<activeTab, chatVars, formVars, ingestVars>>

\* VideoResult onNewVideo: back to IDLE, where App mounts a new PromptForm
NewVideo ==
  /\ VideoResultRendered
  /\ appState' = "IDLE"
  /\ UNCHANGED <<videoUrl, errorMessage, lastConfig, initialFormValues>>
  /\ UNCHANGED <<activeTab, chatVars, formVars, genVars, ingestVars>>

\* the Studio and Dialog buttons of the tab bar; leaving the studio tab
\* unmounts the PromptForm
setActiveTab(tab) ==
  /\ activeTab' = tab
  /\ IF activeTab = "studio" /\ tab # "studio"
     THEN MountPromptForm(initialFormValues)
     ELSE UNCHANGED formVars
  /\ UNCHANGED <<appVars, chatVars, genVars, ingestVars>>

\* ---------------------------------------------------------------- App: chat
\* a text the code never looks into, kept as a one-symbol string
Text(words) == <<words>>

GREETING == Text("Ich bin Kaspar. Welche ungeschriebene Geschichte traeumst du heute?")
EMPTY_RESPONSE_TEXT == Text("Der Nebel ist zu dicht, ich kann gerade nicht sehen...")
FAILURE_TEXT == Text("Etwas hat meine Sicht getruebt...")

\* what the user can type into the chat input
ChatInputs == {<<>>, <<" ">>, <<"H", "i">>, <<" ", "H", "i", " ">>}

\* what generateContent can answer: response.text, possibly empty
ResponseTexts == {<<>>, Text("Eine Geschichte aus Papier.")}

\* the contents argument: each message's role in the remote vocabulary
RemoteRole(role) == IF role = "bot" THEN "model" ELSE "user"
Contents(messages) ==
  [i \in 1..Len(messages) |->
     [role |-> RemoteRole(messages[i].role), text |-> messages[i].text]]

\* chat input onChange
setChatInput(text) ==
  /\ ChatRendered
  /\ chatInput' = text
  /\ UNCHANGED <<chatMessages, isTyping, chatInFlight, sendCount>>
  /\ UNCHANGED <<activeTab, appVars, formVars, genVars, ingestVars>>

\* handleSendMessage sending the transcript as it was before the new turn
handleSendMessage_WithoutNewTurn ==
  /\ ChatRendered
  /\ trim(chatInput) # <<>>
  /\ sendCount < MaxSends
  /\ LET userText == chatInput IN
       /\ chatInput' = <<>>
       /\ chatMessages' = Append(chatMessages, [role |-> "user", text |-> userText])
       /\ isTyping' = TRUE
       /\ sendCount' = sendCount + 1
       /\ chatInFlight' = chatInFlight \cup
            {[id |-> sendCount + 1, contents |-> Contents(chatMessages)]}
  /\ UNCHANGED <<activeTab, appVars, formVars, genVars, ingestVars>>

\* handleSendMessage up to its await (send button or Enter); with a blank
\* input it returns at once and changes nothing
handleSendMessage ==
  /\ ChatRendered
  /\ trim(chatInput) # <<>>
  /\ sendCount < MaxSends
  /\ LET userText == chatInput IN
       /\ chatInput' = <<>>
       /\ chatMessages' = Append(chatMessages, [role |-> "user", text |-> userText])
       /\ isTyping' = TRUE
       /\ sendCount' = sendCount + 1
       /\ chatInFlight' = chatInFlight \cup
            {[id |-> sendCount + 1,
              contents |-> Contents(Append(chatMessages,
                                           [role |-> "user", text |-> userText]))]}
  /\ UNCHANGED <<activeTab, appVars, formVars, genVars, ingestVars>>

\* the resolved branch appending a turn only when response.text is not empty
GenerateContentResolves_NoFallback(call, text) ==
  /\ call \in chatInFlight
  /\ chatInFlight' = chatInFlight \ {call}
  /\ chatMessages' = IF text # <<>>
                     THEN Append(chatMessages, [role |-> "bot", text |-> text])
                     ELSE chatMessages
  /\ isTyping' = FALSE
  /\ UNCHANGED <<chatInput, sendCount>>
  /\ UNCHANGED <<activeTab, appVars, formVars, genVars, ingestVars>>

\* handleSendMessage after its await, generateContent resolved
GenerateContentResolves(call, text) ==
  /\ call \in chatInFlight
  /\ chatInFlight' = chatInFlight \ {call}
  /\ LET botText == IF text # <<>> THEN text ELSE EMPTY_RESPONSE_TEXT IN
       chatMessages' = Append(chatMessages, [role |-> "bot", text |-> botText])
  /\ isTyping' = FALSE
  /\ UNCHANGED <<chatInput, sendCount>>
  /\ UNCHANGED <<activeTab, appVars, formVars, genVars, ingestVars>>

\* the catch branch swallowing the failure without a turn
GenerateContentRejects_Silent(call) ==
  /\ call \in chatInFlight
  /\ chatInFlight' = chatInFlight \ {call}
  /\ isTyping' = FALSE
  /\ UNCHANGED <<chatMessages, chatInput, sendCount>>
  /\ UNCHANGED <<activeTab, appVars, formVars, genVars, ingestVars>>

\* handleSendMessage after its await, generateContent rejected
GenerateContentRejects(call) ==
  /\ call \in chatInFlight
  /\ chatInFlight' = chatInFlight \ {call}
  /\ chatMessages' = Append(chatMessages, [role |-> "bot", text |-> FAILURE_TEXT])
  /\ isTyping' = FALSE
  /\ UNCHANGED <<chatInput, sendCount>>
  /\ UNCHANGED <<activeTab, appVars, formVars, genVars, ingestVars>>

\* ------------------------------------------------------------ fileToBase64
\* fileToBase64(file) up to readAsDataURL: a new promise, the read started
IngestStart(file) ==
  /\ ingestFile = None \/ ingestEvent # None
  /\ ingestFile' = Some(file)
  /\ ingestEvent' = None
  /\ ingestPromise' = [status |-> "pending", value |-> None]
  /\ UNCHANGED <<activeTab, appVars, chatVars, formVars, genVars>>

\* the reader fires the terminal event of the read and its handler runs
ReaderFires(ev) ==
  /\ ingestFile # None
  /\ ingestEvent = None
  /\ ev \in ReaderEvents(ingestFile[1])
  /\ ingestEvent' = Some(ev)
  /\ ingestPromise' = readerSettles(ev, ingestFile[1])
  /\ UNCHANGED ingestFile
  /\ UNCHANGED <<activeTab, appVars, chatVars, formVars, genVars>>

\* ------------------------------------------------------------ specifications
\* the state after App mounted and its mount effect set the greeting
Init ==
  /\ activeTab = "studio"
  /\ appState = "IDLE"
  /\ videoUrl = None
  /\ errorMessage = None
  /\ lastConfig = None
  /\ initialFormValues = None
  /\ chatMessages = <<[role |-> "bot", text |-> GREETING]>>
  /\ chatInput = <<>>
  /\ isTyping = FALSE
  /\ prompt = FormInitial(None).prompt
  /\ model = generationModeEffect(FormInitial(None).mode, FormInitial(None)).model
  /\ aspectRatio = generationModeEffect(FormInitial(None).mode, FormInitial(None)).aspectRatio
  /\ resolution = generationModeEffect(FormInitial(None).mode, FormInitial(None)).resolution
  /\ generationMode = FormInitial(None).mode
  /\ startFrame = FormInitial(None).startFrame
  /\ endFrame = FormInitial(None).endFrame
  /\ referenceImages = FormInitial(None).referenceImages
  /\ styleImage = FormInitial(None).styleImage
  /\ inputVideo = FormInitial(None).inputVideo
  /\ inputVideoObject = FormInitial(None).inputVideoObject
  /\ isLooping = FormInitial(None).isLooping
  /\ isSettingsOpen = FALSE
  /\ isModeSelectorOpen = FALSE
  /\ pendingReads = NoReads
  /\ genInFlight = {}
  /\ genCount = 0
  /\ liveUrls = {}
  /\ chatInFlight = {}
  /\ sendCount = 0
  /\ ingestFile = None
  /\ ingestEvent = None
  /\ ingestPromise = [status |-> "pending", value |-> None]

\* The App's steps fall into three parts that share only activeTab (and, for
\* the form and the generation, the submit step): the PromptForm, the
\* generation outcome, and the chat. No step of one part reads or writes a
\* variable of another part, so each part is checked under its own
\* specification, and Spec is the whole App.

\* PromptForm: every handler of the form, up to and including the submit
\* that hands the request to handleGenerate and unmounts the form. A form
\* mounted later starts from the state the first one started from.
FormNext ==
  \/ \E text \in Prompts : SetPrompt(text)
  \/ \E preset \in ANIMATION_PRESETS : applyPreset(preset)
  \/ ToggleModeSelector
  \/ ToggleSettings
  \/ \E mode \in selectableModes : handleSelectMode(mode)
  \/ \E value \in VeoModel : SetModel(value)
  \/ \E value \in AspectRatio : SetAspectRatio(value)
  \/ \E value \in Resolution : SetResolution(value)
  \/ \E target \in ReadTargets, file \in Files : StartRead(target, file)
  \/ \E target \in ReadTargets, file \in Files : CompleteRead(target, file)
  \/ RemoveStartFrame
  \/ RemoveEndFrame
  \/ ToggleLoop
  \/ \E index \in 1..(MaxReferenceImages + MaxPendingReads) : RemoveReferenceImage(index)
  \/ SubmitForm
  \/ \E tab \in {"studio", "dialog"} : setActiveTab(tab)

FormSpec == Init /\ [][FormNext]_vars

\* Generation: handleGenerate and the views that call it. handleGenerate
\* stores and forwards its params without looking into them, so the requests
\* are the text-to-video requests that the prompt field and the Engine select
\* produce.
GenNext ==
  \/ \E text \in Prompts : SetPrompt(text)
  \/ ToggleSettings
  \/ \E value \in VeoModel : SetModel(value)
  \/ SubmitForm
  \/ \E call \in genInFlight : GenerateVideoResolves(call)
  \/ \E call \in genInFlight, error \in GenerationErrors : GenerateVideoRejects(call, error)
  \/ Retry
  \/ NewVideo
  \/ \E tab \in {"studio", "dialog"} : setActiveTab(tab)

GenSpec == Init /\ [][GenNext]_vars

\* The chat: the Kaspar Hauser dialog and the tab bar.
ChatNext ==
  \/ \E text \in ChatInputs : setChatInput(text)
  \/ handleSendMessage
  \/ \E call \in chatInFlight, text \in ResponseTexts : GenerateContentResolves(call, text)
  \/ \E call \in chatInFlight : GenerateContentRejects(call)
  \/ \E tab \in {"studio", "dialog"} : setActiveTab(tab)

ChatSpec == Init /\ [][ChatNext]_vars

\* handleSendMessage resuming after its await for the send with this id
SendSettles(id) ==
  \E call \in chatInFlight :
    /\ call.id = id
    /\ \/ \E text \in ResponseTexts : GenerateContentResolves(call, text)
       \/ GenerateContentRejects(call)

\* The chat when every generateContent promise settles: the remote call
\* answers or fails, and the event loop then resumes the handler.
ChatLiveSpec == ChatSpec /\ \A id \in 1..MaxSends : WF_vars(SendSettles(id))

\* fileToBase64 on its own: one call at a time, over every file content and
\* every terminal event of its reader.
IngestNext ==
  \/ \E file \in IngestFiles : IngestStart(file)
  \/ \E file \in IngestFiles : \E ev \in ReaderEvents(file) : ReaderFires(ev)

IngestSpec == Init /\ [][IngestNext]_vars

Next == FormNext \/ GenNext \/ ChatNext \/ IngestNext

Spec == Init /\ [][Next]_vars

\* ------------------------------------------------------------------- claims
\* the readiness table: what each mode needs before it may be submitted
HasText(s) == \E i \in 1..Len(s) : s[i] \notin Whitespace
ModeReady ==
  CASE generationMode = TEXT_TO_VIDEO -> HasText(prompt)
    [] generationMode = ANIMATE_IMAGE -> startFrame # None
    [] generationMode = REFERENCES_TO_VIDEO -> referenceImages # <<>> /\ HasText(prompt)
    [] generationMode = EXTEND_VIDEO -> inputVideoObject # None

\* C1: in every reachable form state the submit control is enabled exactly
\* if the mode's readiness requirement holds; when it does not hold a
\* non-empty reason is shown, and no step makes a generate call from a form
\* whose requirement does not hold.
C1_SubmitIffReady ==
  /\ []((~isSubmitDisabled <=> ModeReady) /\ (~ModeReady => tooltipText # ""))
  /\ [][(appState = "IDLE" /\ genCount' > genCount) => ModeReady]_vars

\* C1 witness: a generate call is in flight that the form made in
\* references mode, with a reference image and a prompt
C1_Witness ==
  \E call \in genInFlight :
    /\ call.params.mode = REFERENCES_TO_VIDEO
    /\ call.params.referenceImages # <<>>
    /\ HasText(call.params.prompt)

\* the fields a mode switch is to clear are clear in the next state
ModeFieldsCleared ==
  /\ startFrame' = None
  /\ endFrame' = None
  /\ referenceImages' = <<>>
  /\ styleImage' = None
  /\ inputVideo' = None
  /\ inputVideoObject' = None
  /\ isLooping' = FALSE

\* C2 as claimed: every mode switch clears the seven mode fields and
\* preserves prompt, model, aspectRatio and resolution.
C2_SwitchPreservesSettings ==
  [][\A mode \in selectableModes :
       handleSelectMode(mode) =>
         /\ ModeFieldsCleared
         /\ prompt' = prompt
         /\ model' = model /\ aspectRatio' = aspectRatio /\ resolution' = resolution]_vars

\* C2 as amended: every mode switch clears the seven mode fields and
\* preserves the prompt; it preserves model, aspectRatio and resolution
\* unless the switch is to ReferencesToVideo, which sets them to VEO,
\* LANDSCAPE and P720.
C2_SwitchClearsModeFields ==
  [][\A mode \in selectableModes :
       handleSelectMode(mode) =>
         /\ ModeFieldsCleared
         /\ prompt' = prompt
         /\ IF mode = REFERENCES_TO_VIDEO
            THEN model' = "VEO" /\ aspectRatio' = "LANDSCAPE" /\ resolution' = "P720"
            ELSE model' = model /\ aspectRatio' = aspectRatio
                 /\ resolution' = resolution]_vars

\* C2 witness: references mode holding a preset prompt, which only animate
\* mode with a start frame can set: a switch kept the prompt, cleared the
\* start frame and forced the settings
C2_Witness ==
  /\ generationMode = REFERENCES_TO_VIDEO
  /\ prompt \in {PresetPrompt(id) : id \in ANIMATION_PRESETS}
  /\ startFrame = None
  /\ referenceImages = <<>>
  /\ model = "VEO"

\* C3: isLooping and a present endFrame never hold together.
C3_LoopHasNoEndFrame == ~(isLooping /\ endFrame # None)

\* C4: referenceImages never holds more than three images.
C4_AtMostThreeReferences == Len(referenceImages) <= MaxReferenceImages

\* C5: at most one object URL of a generated video is live at any time.
C5_OneLiveUrl == Cardinality(liveUrls) <= 1

\* C6: generate calls are serialized: at most one is in flight, one is in
\* flight exactly while appState is LOADING, and a call that settles is the
\* most recently started one.
C6_ResultOfLatestCall ==
  /\ [](Cardinality(genInFlight) <= 1 /\ (genInFlight # {} <=> appState = "LOADING"))
  /\ [][\A call \in genInFlight : call \notin genInFlight' => call.id = genCount]_vars

\* C6 witness: a second call is in flight, started after an earlier
\* generation succeeded and left its video URL
C6_Witness ==
  /\ appState = "LOADING"
  /\ videoUrl # None
  /\ \E call \in genInFlight : call.id = genCount /\ call.id >= 2

\* C7: a failed generation leaves a non-empty reason in errorMessage.
C7_FailedHasReason ==
  appState = "ERROR" => (errorMessage # None /\ errorMessage[1] # "")

\* the controls of the studio tab: those of the PromptForm and those of the
\* VideoResult view
StudioControl ==
  \/ \E text \in Prompts : SetPrompt(text)
  \/ \E preset \in ANIMATION_PRESETS : applyPreset(preset)
  \/ ToggleModeSelector
  \/ ToggleSettings
  \/ \E mode \in selectableModes : handleSelectMode(mode)
  \/ \E value \in VeoModel : SetModel(value)
  \/ \E value \in AspectRatio : SetAspectRatio(value)
  \/ \E value \in Resolution : SetResolution(value)
  \/ \E target \in ReadTargets, file \in Files : StartRead(target, file)
  \/ RemoveStartFrame
  \/ RemoveEndFrame
  \/ ToggleLoop
  \/ \E index \in 1..(MaxReferenceImages + MaxPendingReads) : RemoveReferenceImage(index)
  \/ SubmitForm
  \/ Retry
  \/ NewVideo

\* C8: after a failed generation the studio offers the user a control, the
\* first step of a way to a new generate call.
C8_ErrorIsResubmittable ==
  (appState = "ERROR" /\ activeTab = "studio") => ENABLED StudioControl

\* What holds instead: once appState is ERROR it stays ERROR and no generate
\* call is made, whatever the user does.
ErrorIsFinal ==
  [][appState = "ERROR" => (appState' = "ERROR" /\ genCount' = genCount)]_vars

\* C9: while a call is in flight, and after it failed, lastConfig is the
\* request that call was made with; the step on which a call fails leaves
\* lastConfig alone, and a retry calls generate with lastConfig as it stands.
C9_RetrySameRequest ==
  /\ [](\A call \in genInFlight : call.id = genCount => lastConfig = Some(call.params))
  /\ [][(appState = "LOADING" /\ appState' = "ERROR") =>
          /\ lastConfig' = lastConfig
          /\ \E call \in genInFlight : lastConfig' = Some(call.params)]_vars
  /\ [][(appState = "SUCCESS" /\ appState' = "LOADING") =>
          /\ lastConfig' = lastConfig
          /\ \E call \in genInFlight' :
               call.id = genCount' /\ Some(call.params) = lastConfig]_vars

\* C9 witness: the second generation failed, and lastConfig still holds a
\* request with the VEO engine
C9_Witness ==
  /\ appState = "ERROR"
  /\ genCount >= 2
  /\ lastConfig # None
  /\ lastConfig[1].model = "VEO"
  /\ HasText(lastConfig[1].prompt)

\* the transcript of sends made one at a time: the greeting, then user and
\* assistant turns by turns, the last user turn unanswered while its send
\* is in flight
TranscriptInTurns ==
  /\ chatMessages[1] = [role |-> "bot", text |-> GREETING]
  /\ Len(chatMessages) = 1 + 2 * sendCount - Cardinality(chatInFlight)
  /\ \A i \in 2..Len(chatMessages) :
       chatMessages[i].role = IF i % 2 = 0 THEN "user" ELSE "bot"

\* C10: as long as sends are made one at a time, the transcript after n
\* sends is the greeting followed by n pairs of a user turn and an assistant
\* turn (1 + 2n entries once the last send has completed); and no step ever
\* changes or removes an entry of the transcript.
C10_TranscriptGrowsInTurns ==
  /\ [](Cardinality(chatInFlight) <= 1) => []TranscriptInTurns
  /\ [][/\ Len(chatMessages') >= Len(chatMessages)
        /\ SubSeq(chatMessages', 1, Len(chatMessages)) = chatMessages]_vars

\* C10 witness: two sends completed one after the other: five entries
C10_Witness ==
  /\ chatInFlight = {}
  /\ sendCount = 2
  /\ Len(chatMessages) = 5
  /\ chatMessages[2].role = "user" /\ chatMessages[3].role = "bot"
  /\ chatMessages[4].role = "user" /\ chatMessages[5].role = "bot"

\* the number of turns of a role in the transcript
CountRole(role) ==
  Cardinality({i \in 1..Len(chatMessages) : chatMessages[i].role = role})

\* the texts an assistant turn appended by a completed send can have
AnswerTexts == (ResponseTexts \ {<<>>}) \cup {EMPTY_RESPONSE_TEXT, FAILURE_TEXT}

\* C11: every send appends its user turn when it starts and exactly one
\* assistant turn when its remote call settles: the step in which a call
\* settles appends one assistant turn with a non-empty text and nothing
\* else, the step of a failed call appends the scripted failure turn, and
\* (the remote call settling) every started send eventually completes.
C11_EverySendAnswered ==
  /\ [](/\ CountRole("user") = sendCount
        /\ CountRole("bot") = 1 + sendCount - Cardinality(chatInFlight))
  /\ [][\A call \in chatInFlight :
          /\ call \notin chatInFlight' =>
               /\ Len(chatMessages') = Len(chatMessages) + 1
               /\ SubSeq(chatMessages', 1, Len(chatMessages)) = chatMessages
               /\ chatMessages'[Len(chatMessages')].role = "bot"
               /\ chatMessages'[Len(chatMessages')].text \in AnswerTexts
          /\ GenerateContentRejects(call) =>
               chatMessages' =
                 Append(chatMessages, [role |-> "bot", text |-> FAILURE_TEXT])]_vars
  /\ \A id \in 1..MaxSends :
       (\E call \in chatInFlight : call.id = id)
         ~> (sendCount >= id /\ \A call \in chatInFlight : call.id # id)

\* C11 witness: a send failed: its user turn is followed by the failure turn
C11_Witness ==
  /\ chatInFlight = {}
  /\ sendCount = 1
  /\ Len(chatMessages) = 3
  /\ chatMessages[2].role = "user"
  /\ chatMessages[3] = [role |-> "bot", text |-> FAILURE_TEXT]

\* C12: sends are single-flight: at most one send is in flight at any time,
\* and no two user turns stand next to each other in the transcript
\* without an assistant turn between them.
C12_SingleFlight ==
  /\ Cardinality(chatInFlight) <= 1
  /\ \A i \in 1..(Len(chatMessages) - 1) :
       ~(chatMessages[i].role = "user" /\ chatMessages[i + 1].role = "user")

\* C13: no medium of another mode is ever held by the form: in
\* TEXT_TO_VIDEO every media field is empty, in ANIMATE_IMAGE and in
\* REFERENCES_TO_VIDEO only the fields of that mode can be set, also when a
\* file read started in one mode completes after a switch to another.
C13_NoCrossModeLeakage ==
  /\ styleImage = None /\ inputVideo = None /\ inputVideoObject = None
  /\ generationMode = TEXT_TO_VIDEO =>
       startFrame = None /\ endFrame = None /\ referenceImages = <<>>
  /\ generationMode = ANIMATE_IMAGE => referenceImages = <<>>
  /\ generationMode = REFERENCES_TO_VIDEO => startFrame = None /\ endFrame = None

\* the read of the fileToBase64 call has ended with this event
ReadEndedWith(event) == ingestEvent # None /\ ingestEvent[1].event = event

\* the read delivered the whole data URL of the file, with a payload
PayloadDelivered ==
  /\ ReadEndedWith("load")
  /\ ingestEvent[1].result = DataURL(ingestFile[1])
  /\ ingestFile[1].payload # <<>>

\* C14: fileToBase64 settles for every outcome of the read. While the read
\* runs the promise is pending; once the read has ended the promise is
\* settled: resolved exactly when the read loaded a data URL with a
\* non-empty payload, and then with that payload, the data-URL prefix
\* stripped; rejected when the read failed or loaded no payload (a file of
\* no bytes, or a result the engine could not hold). It is never resolved
\* with an empty payload and never pending after the read ended.
C14_IngestSettles ==
  /\ (ingestFile # None /\ ingestEvent = None) => ingestPromise.status = "pending"
  /\ ingestEvent # None =>
       /\ ingestPromise.status \in {"resolved", "rejected"}
       /\ ingestPromise.status = "resolved" <=> PayloadDelivered
       /\ ingestPromise.status = "resolved" =>
            /\ ingestPromise.value =
                 Some([file |-> ingestFile[1], base64 |-> ingestFile[1].payload])
            /\ ingestPromise.value[1].base64 # <<>>

\* C14 witness: the read of a PNG loaded, and the promise is resolved with
\* the payload that follows the data-URL prefix
C14_Witness ==
  /\ ReadEndedWith("load")
  /\ ingestFile[1] = [type |-> <<"image/png">>, payload |-> <<"Q", "/">>]
  /\ ingestEvent[1].result = <<"data:", "image/png", ";base64", ",", "Q", "/">>
  /\ ingestPromise =
       [status |-> "resolved",
        value |-> Some([file |-> ingestFile[1], base64 |-> <<"Q", "/">>])]

\* a read that ended with an error, or loaded no payload, left the promise
\* rejected
C14_RejectedWitness ==
  /\ ingestPromise.status = "rejected"
  /\ \/ ReadEndedWith("error")
     \/ ReadEndedWith("load") /\ ingestFile[1].payload = <<>>
     \/ ReadEndedWith("load") /\ ingestEvent[1].result = <<>>

\* the settings REFERENCES_TO_VIDEO forces
ForcedSettings(r) ==
  r.model = "VEO" /\ r.aspectRatio = "LANDSCAPE" /\ r.resolution = "P720"

\* C15: while the form is in REFERENCES_TO_VIDEO its engine, format and
\* quality are VEO, LANDSCAPE and P720, whatever they were before the mode
\* was entered and whatever the user does in the settings panel, and every
\* request submitted in that mode carries these three values.
C15_ReferencesModeSettings ==
  /\ isRefMode => ForcedSettings(SubmitParams)
  /\ \A call \in genInFlight :
       call.params.mode = REFERENCES_TO_VIDEO => ForcedSettings(call.params)
  /\ isRefMode =>
       /\ ~ENABLED (\E value \in VeoModel : SetModel(value))
       /\ ~ENABLED (\E value \in AspectRatio : SetAspectRatio(value))
       /\ ~ENABLED (\E value \in Resolution : SetResolution(value))

\* C15 witness: the form is in REFERENCES_TO_VIDEO, ready to submit, with
\* the settings panel open
C15_Witness ==
  /\ PromptFormRendered
  /\ isRefMode
  /\ isSettingsOpen
  /\ ~isSubmitDisabled
  /\ ForcedSettings(SubmitParams)

\* C16: every generate call ends in exactly one of SUCCESS and ERROR when
\* its remote call settles: the step in which a call settles leaves
\* appState SUCCESS with a video URL and no error message, or ERROR with
\* an error message, and appState is never LOADING with no call left to
\* settle.
C16_CallEndsInSuccessOrError ==
  /\ [](appState = "LOADING" => genInFlight # {})
  /\ [][\A call \in genInFlight :
          call \notin genInFlight' =>
            \/ appState' = "SUCCESS" /\ videoUrl' # None /\ errorMessage' = None
            \/ appState' = "ERROR" /\ errorMessage' # None]_vars

\* C16 witness: the first call was rejected with a value that is no Error,
\* and the outcome is ERROR with the generic reason
C16_Witness ==
  /\ genCount = 1
  /\ genInFlight = {}
  /\ appState = "ERROR"
  /\ errorMessage = Some("Fehler bei der Generierung.")

\* C17: while a remote generation is in flight the outcome is LOADING and
\* no error message is held: there is no state with a call in flight and
\* appState IDLE, SUCCESS or ERROR.
C17_LoadingWhileInFlight ==
  genInFlight # {} => appState = "LOADING" /\ errorMessage = None

\* C17 witness: the first generate call is in flight
C17_Witness ==
  /\ genCount = 1
  /\ appState = "LOADING"
  /\ \E call \in genInFlight : call.id = 1 /\ lastConfig = Some(call.params)

\* C18: the contents a send hands to the remote model are the whole
\* transcript as it stands after the send appended its user turn: one
\* entry per turn, in the transcript's order, with the turn's text and with
\* role "model" for an assistant turn and "user" for a user turn, the last
\* entry being the user turn with the text just typed.
C18_ContextIsTranscript ==
  [][\A call \in chatInFlight' \ chatInFlight :
       /\ Len(call.contents) = Len(chatMessages')
       /\ \A i \in 1..Len(chatMessages') :
            /\ call.contents[i].text = chatMessages'[i].text
            /\ call.contents[i].role =
                 IF chatMessages'[i].role = "bot" THEN "model" ELSE "user"
       /\ call.contents[Len(call.contents)] = [role |-> "user", text |-> chatInput]
       /\ Len(chatMessages') = Len(chatMessages) + 1]_vars

\* C18 witness: the second send, made after the first was answered, is in
\* flight with a context of four entries: greeting, turn, answer, turn
C18_Witness ==
  \E call \in chatInFlight :
    /\ call.id = 2
    /\ Len(call.contents) = 4
    /\ call.contents[1] = [role |-> "model", text |-> GREETING]
    /\ call.contents[2].role = "user"
    /\ call.contents[3].role = "model"
    /\ call.contents[4].role = "user"

\* the mode of a request is one of the three the selector offers
OfferedMode(mode) == mode \in {TEXT_TO_VIDEO, ANIMATE_IMAGE, REFERENCES_TO_VIDEO}

\* C19: EXTEND_VIDEO is unreachable: the form's mode is always one of
\* TEXT_TO_VIDEO, ANIMATE_IMAGE and REFERENCES_TO_VIDEO, the form is never
\* given initial values, and no generate call, in flight or remembered for
\* a retry, has mode EXTEND_VIDEO.
C19_ExtendVideoUnreachable ==
  /\ OfferedMode(generationMode)
  /\ ~isExtendMode
  /\ initialFormValues = None
  /\ \A call \in genInFlight : OfferedMode(call.params.mode)
  /\ lastConfig # None => OfferedMode(lastConfig[1].mode)

\* C19 witness: the user went through the mode selector and submitted: a
\* looping ANIMATE_IMAGE request is in flight and remembered for a retry
C19_Witness ==
  /\ initialFormValues = None
  /\ lastConfig # None
  /\ \E call \in genInFlight :
       /\ call.params = lastConfig[1]
       /\ call.params.mode = ANIMATE_IMAGE
       /\ call.params.isLooping
====
